---- MODULE Spec2Model ----
(***************************************************************************)
(* Daily-Coordinator: five independent serverless handlers.                *)
(*   slack     src/lambda/slack_poster.py            (webhook relay)       *)
(*   whatsapp  src/lambda-whatsapp/whatsapp_sender.py (chat relay)         *)
(*   pubsub    src/lambda/gcp_pubsub.py              (second-bus publisher)*)
(*   index     src/lambda/index.py                   (primary coordinator) *)
(*   firestore src/cloud-function/main.py            (document sync)       *)
(* Every handler is deployed as its own function, so a behaviour is the    *)
(* life of ONE process: Init picks the process (proc) and its environment  *)
(* variables, and Next runs that process's handler, one step per outbound  *)
(* call, over a bounded number of invocations.  Module globals survive     *)
(* from one invocation to the next; locals are reset at each invocation.   *)
(***************************************************************************)
EXTENDS Integers, Sequences, FiniteSets, TLC

\* ------------------------------------------------------------------ bounds
MaxInvocations == 2     \* invocations of the handler in one process
MaxRecords == 2         \* records in a wrapped (SNS) envelope of the webhook relay
MaxWaRecords == 1       \* records in a wrapped (SNS) envelope of the chat relay
MaxRecipients == 2      \* comma-separated entries of WHATSAPP_TO
MaxTasks == 2           \* largest tasks_processed carried by a message

VARIABLES
    proc,                \* which of the five functions this process runs
    pc,                  \* position of the handler ("idle" between invocations)
    invocations,         \* invocations started so far in this process
    event,               \* the event of the current invocation
    calls,               \* steps / outbound calls of the current invocation, in order
    ret,                 \* outcome of the last finished invocation
    secretLog,           \* count of the secrets_client.get_secret_value calls so far:
                         \*   fetched: calls that returned a response,
                         \*   loaded:  calls whose response yielded a credential,
                         \*   late:    calls made while a credential was cached
    \* slack_poster.py
    SLACK_SECRET_NAME, cached_webhook, webhook_url, summary,
    \* whatsapp_sender.py
    Client, TWILIO_SECRET_NAME, WHATSAPP_TO, twilio_client, event_data,
    recipients, results,
    \* gcp_pubsub.py
    pubsub_v1, GCP_PUBSUB_SECRET_NAME, GCP_PROJECT_ID, publisher_client, result,
    \* index.py
    SECRETS_MANAGER_ARN,
    coord_results,       \* the local "results" of coordinate_daily_tasks
    table,               \* status of the items put into the DynamoDB table, in order
    queried,             \* the invocations that called the secret store
    \* cloud-function/main.py
    payload,
    now,                 \* int(datetime.utcnow().timestamp())
    tasks,               \* collection "tasks": the documents, by id
    coordinators,        \* collection "coordinators": total_tasks by coordinator
    returned_total,      \* by coordinator, the tasks_processed of the invocations that
                         \* carried data and returned normally
    store_before         \* both collections as the current invocation found them

commonVars == <<proc, pc, invocations, event, calls, ret, secretLog>>
slackVars  == <<SLACK_SECRET_NAME, cached_webhook, webhook_url, summary>>
waVars     == <<Client, TWILIO_SECRET_NAME, WHATSAPP_TO, twilio_client, event_data,
                recipients, results>>
psVars     == <<pubsub_v1, GCP_PUBSUB_SECRET_NAME, GCP_PROJECT_ID, publisher_client,
                result>>
ixVars     == <<SECRETS_MANAGER_ARN, coord_results, table, queried>>
fsVars     == <<payload, now, tasks, coordinators, returned_total, store_before>>
vars == <<commonVars, slackVars, waVars, psVars, ixVars, fsVars>>

\* ------------------------------------------------------- Python primitives
None == "None"

\* bool(v) for the values of the model: None and the empty string are falsy
Truthy(v) == v \notin {None, ""}

\* a or b
Or2NoneOnly(a, b) == IF a # None THEN a ELSE b
Or2(a, b) == IF Truthy(a) THEN a ELSE b

\* outcomes of an invocation
NoReturn  == [kind |-> "none"]
Raised    == [kind |-> "raised"]
Returned(v) == [kind |-> "return", value |-> v]

\* one entry of calls
Call(op, ok) == [op |-> op, ok |-> ok]

\* the platform invokes the handler of process p with event ev
StartInvocation(p, ev) ==
    /\ proc = p
    /\ pc = "idle"
    /\ invocations < MaxInvocations
    /\ invocations' = invocations + 1
    /\ event' = ev
    /\ calls' = <<>>
    /\ ret' = NoReturn

NoEvent == [kind |-> "none"]

\* secretLog after a credential load that made the get_secret_value calls in
\* log (none, or one of "error", "unusable", "loaded") with the cache as given
NoSecretCalls == [fetched |-> 0, loaded |-> 0, late |-> 0]
Logged(sl, log, cached) ==
    IF log = <<>> THEN sl
    ELSE [fetched |-> sl.fetched + (IF log[1] \in {"unusable", "loaded"} THEN 1 ELSE 0),
          loaded  |-> sl.loaded + (IF log[1] = "loaded" THEN 1 ELSE 0),
          late    |-> sl.late + (IF Truthy(cached) THEN 1 ELSE 0)]

\* ============================================================ slack_poster
\* What secrets_client.get_secret_value can answer: the call raises, or it
\* returns a response whose SecretString is absent/empty, is not JSON (the raw
\* string is then the webhook), is a JSON value that is no object, or is a JSON
\* object holding any of the two keys.
SlackSecretValues == {None, "", "https://hooks/A"}
SlackSecretStrings ==
    {[json |-> "absent"], [json |-> "invalid", text |-> "https://hooks/raw"],
     [json |-> "other"]}
    \cup {[json |-> "dict", slack_webhook_url |-> a, webhook_url |-> b] :
            a \in SlackSecretValues, b \in {None, "https://hooks/B"}}
SlackResponses == {[raises |-> TRUE]}
    \cup {[raises |-> FALSE, SecretString |-> s] : s \in SlackSecretStrings}

\* lines 41-55: the webhook a fetched response yields (None: the load raises)
WebhookOfResponse(resp) ==
    LET s == resp.SecretString IN
    CASE s.json = "absent"  -> None
      [] s.json = "invalid" -> s.text
      [] s.json = "dict"    -> Or2(s.slack_webhook_url, s.webhook_url)
      [] OTHER              -> None

\* _load_webhook_url as a function of the cache, the environment and the
\* store's answer: the returned URL (None when it raises), the new cache, and
\* what the call adds to secretLog.
FetchWebhookUrl(cached, name, resp) ==
    IF ~Truthy(name) THEN [url |-> None, cache |-> cached, log |-> <<>>]
    ELSE IF resp.raises THEN [url |-> None, cache |-> cached, log |-> <<"error">>]
    ELSE LET w == WebhookOfResponse(resp) IN
         IF Truthy(w) THEN [url |-> w, cache |-> w, log |-> <<"loaded">>]
         ELSE [url |-> None, cache |-> cached, log |-> <<"unusable">>]

LoadWebhookUrl(cached, name, resp) ==
    IF Truthy(cached) THEN [url |-> cached, cache |-> cached, log |-> <<>>]
    ELSE FetchWebhookUrl(cached, name, resp)

\* --- events of the webhook relay
FieldValues(k) == {None, "", k}
SnsMessages ==
    {[json |-> "absent"], [json |-> "invalid"], [json |-> "other"]}
    \cup {[json |-> "dict", task_name |-> a, task |-> "m.task", status |-> c,
           details |-> None, message |-> "m.message"] :
            a \in {"", "m.task_name"}, c \in {None, "m.status"}}
SnsRecords ==
    {[shape |-> "nondict"]}
    \cup {[shape |-> "dict", EventSource |-> "aws:s3"]}
    \cup {[shape |-> "dict", EventSource |-> "aws:sns",
           Sns |-> [Subject |-> "subject", Message |-> m]] : m \in SnsMessages}
SeqsUpTo(S, n) == UNION {[1..k -> S] : k \in 0..n}
SlackEvents ==
    {[kind |-> "nondict"]}
    \cup {[kind |-> "direct", task_name |-> a, task |-> b, coordinator_id |-> c,
           status |-> d, details |-> None, message |-> e] :
            a \in FieldValues("task_name"), b \in {None, "task"},
            c \in {None, "coordinator_id"}, d \in {"", "status"},
            e \in {"message"}}
    \cup {[kind |-> "records", Records |-> rs] : rs \in SeqsUpTo(SnsRecords, MaxRecords)}

\* --- the events _extract_summary is examined on by itself: every field of a
\* direct payload and of a decoded SNS message absent, empty or set
SummaryMessages ==
    {[json |-> "absent"], [json |-> "invalid"], [json |-> "other"]}
    \cup {[json |-> "dict", task_name |-> a, task |-> b, coordinator_id |-> c,
           status |-> d, details |-> None, message |-> "m.message"] :
            a \in FieldValues("m.task_name"), b \in {None, "m.task"},
            c \in {None, "m.coordinator_id"}, d \in FieldValues("m.status")}
SummaryRecords ==
    {[shape |-> "nondict"]}
    \cup {[shape |-> "dict", EventSource |-> "aws:s3"]}
    \cup {[shape |-> "dict", EventSource |-> "aws:sns",
           Sns |-> [Subject |-> "subject", Message |-> m]] : m \in SummaryMessages}
SummaryEvents ==
    {[kind |-> "nondict"]}
    \cup {[kind |-> "direct", task_name |-> a, task |-> b, coordinator_id |-> c,
           status |-> d, details |-> None, message |-> e] :
            a \in FieldValues("task_name"), b \in FieldValues("task"),
            c \in FieldValues("coordinator_id"), d \in FieldValues("status"),
            e \in {None, "message"}}
    \cup {[kind |-> "records", Records |-> rs] :
            rs \in SeqsUpTo(SummaryRecords, MaxRecords)}

DefaultSummary ==
    [task |-> "Daily Coordinator", status |-> "updated", details |-> None,
     subject |-> None]

\* the raw Message string as it is stored in summary["details"]
RawMessage(m) ==
    CASE m.json = "absent"  -> None
      [] m.json = "invalid" -> "raw text"
      [] m.json = "other"   -> "raw json"
      [] OTHER              -> "raw json object"

\* lines 76-90: the summary of one SNS record
SummaryOfSns(rec) ==
    LET m == rec.Sns.Message
        s0 == [DefaultSummary EXCEPT !.subject = rec.Sns.Subject,
                                     !.details = RawMessage(m)]
    IN IF m.json = "dict"
       THEN [s0 EXCEPT !.task = Or2(Or2(m.task_name, m.task), s0.task),
                       !.status = Or2(m.status, s0.status),
                       !.details = Or2(Or2(m.details, m.message), s0.details)]
       ELSE s0

\* lines 74-91: the loop over event["Records"], from record i on.  The result
\* is [raises, summary]; record.get raises on a record that is no dict.
RECURSIVE ScanRecords(_, _)
ScanRecords(rs, i) ==
    IF i > Len(rs) THEN [raises |-> FALSE, summary |-> DefaultSummary]
    ELSE IF rs[i].shape = "nondict" THEN [raises |-> TRUE, summary |-> None]
    ELSE IF rs[i].EventSource = "aws:sns"
         THEN [raises |-> FALSE, summary |-> SummaryOfSns(rs[i])]
    ELSE ScanRecords(rs, i + 1)

\* _extract_summary
ExtractSummary(ev) ==
    CASE ev.kind = "nondict" -> [raises |-> FALSE, summary |-> DefaultSummary]
      [] ev.kind = "records" -> ScanRecords(ev.Records, 1)
      [] OTHER ->
           [raises |-> FALSE,
            summary |->
              [DefaultSummary EXCEPT
                 !.task = Or2(Or2(Or2(ev.task_name, ev.task), ev.coordinator_id),
                              DefaultSummary.task),
                 !.status = Or2(ev.status, DefaultSummary.status),
                 !.details = Or2(Or2(ev.details, ev.message), DefaultSummary.details)]]

\* _post_to_slack: urlopen answers 2xx, or raises HTTPError / URLError, which
\* are logged and re-raised.  TRUE when the function raises.
PostOutcomes == {"ok", "HTTPError", "URLError"}
PostToSlackSwallows(outcome) == FALSE
PostToSlackRaises(outcome) == outcome # "ok"

SlackInvoke ==
    /\ \E ev \in SlackEvents : StartInvocation("slack", ev)
    /\ pc' = "load_webhook"
    /\ webhook_url' = None
    /\ summary' = None
    /\ UNCHANGED <<proc, secretLog, SLACK_SECRET_NAME, cached_webhook, waVars, psVars, ixVars, fsVars>>

\* line 145
SlackLoadWebhook ==
    /\ proc = "slack" /\ pc = "load_webhook"
    /\ \E resp \in SlackResponses :
         LET r == LoadWebhookUrl(cached_webhook, SLACK_SECRET_NAME, resp) IN
         /\ cached_webhook' = r.cache
         /\ secretLog' = Logged(secretLog, r.log, cached_webhook)
         /\ webhook_url' = r.url
         /\ calls' = Append(calls, Call("load_webhook_url", Truthy(r.url)))
         /\ IF Truthy(r.url)
            THEN pc' = "extract" /\ ret' = ret
            ELSE pc' = "done" /\ ret' = Raised
    /\ UNCHANGED <<proc, invocations, event, SLACK_SECRET_NAME, summary, waVars, psVars, ixVars, fsVars>>

\* line 146
SlackExtract ==
    /\ proc = "slack" /\ pc = "extract"
    /\ LET r == ExtractSummary(event) IN
         /\ summary' = r.summary
         /\ calls' = Append(calls, Call("extract_summary", ~r.raises))
         /\ IF r.raises
            THEN pc' = "done" /\ ret' = Raised
            ELSE pc' = "render" /\ ret' = ret
    /\ UNCHANGED <<proc, invocations, event, secretLog, SLACK_SECRET_NAME,
                   cached_webhook, webhook_url, waVars, psVars, ixVars, fsVars>>

\* lines 147-158
SlackRender ==
    /\ proc = "slack" /\ pc = "render"
    /\ calls' = Append(calls, Call("render_message", TRUE))
    /\ pc' = "post"
    /\ UNCHANGED <<proc, invocations, event, ret, secretLog, slackVars, waVars, psVars, ixVars, fsVars>>

\* lines 160-170
SlackPost ==
    /\ proc = "slack" /\ pc = "post"
    /\ \E outcome \in PostOutcomes :
         /\ calls' = Append(calls, Call("post_to_slack", outcome = "ok"))
         /\ ret' = IF PostToSlackRaises(outcome) THEN Raised
                   ELSE Returned([statusCode |-> 200,
                                  message |-> "Slack notification sent",
                                  summary |-> summary])
    /\ pc' = "done"
    /\ UNCHANGED <<proc, invocations, event, secretLog, slackVars, waVars, psVars, ixVars, fsVars>>

\* the invocation is over: its locals are gone, the module globals stay
SlackEnd ==
    /\ proc = "slack" /\ pc = "done"
    /\ pc' = "idle"
    /\ event' = NoEvent /\ calls' = <<>> /\ ret' = NoReturn
    /\ webhook_url' = None /\ summary' = None
    /\ UNCHANGED <<proc, invocations, secretLog, SLACK_SECRET_NAME, cached_webhook,
                   waVars, psVars, ixVars, fsVars>>

SlackNext == SlackInvoke \/ SlackLoadWebhook \/ SlackExtract \/ SlackRender \/ SlackPost
             \/ SlackEnd

\* ========================================================= whatsapp_sender
\* Strings that the handler splits, strips and prefixes are sequences of
\* tokens: "," and " " are single characters, "whatsapp:" is the literal
\* prefix, "+1" and "+2" are phone numbers.
WaEntries == {<<>>, <<"+1">>, <<" ", "whatsapp:", "+2", " ">>}

RECURSIVE JoinComma(_)
JoinComma(es) ==
    IF Len(es) = 0 THEN <<>>
    ELSE IF Len(es) = 1 THEN es[1]
    ELSE es[1] \o <<",">> \o JoinComma(Tail(es))

\* the values WHATSAPP_TO can hold: entries joined by commas; <<>> is the
\* unset variable as well as the empty one ("not WHATSAPP_TO" holds of both)
WhatsappToValues ==
    {JoinComma(es) : es \in (SeqsUpTo(WaEntries, MaxRecipients) \ {<<>>})}

\* str.split(","): always at least one part
RECURSIVE SplitComma(_)
SplitComma(str) ==
    IF \A i \in 1..Len(str) : str[i] # ","
    THEN <<str>>
    ELSE LET i == CHOOSE j \in 1..Len(str) :
                     str[j] = "," /\ \A k \in 1..(j - 1) : str[k] # ","
         IN <<SubSeq(str, 1, i - 1)>> \o SplitComma(SubSeq(str, i + 1, Len(str)))

\* str.strip()
RECURSIVE Strip(_)
Strip(str) ==
    IF Len(str) > 0 /\ str[1] = " " THEN Strip(Tail(str))
    ELSE IF Len(str) > 0 /\ str[Len(str)] = " " THEN Strip(SubSeq(str, 1, Len(str) - 1))
    ELSE str

StartsWithWhatsapp(str) == Len(str) > 0 /\ str[1] = "whatsapp:"

\* line 173
Recipients(to) == LET parts == SplitComma(to) IN [i \in 1..Len(parts) |-> Strip(parts[i])]

\* lines 179-180
AddressNoPrefix(recipient) == recipient
Address(recipient) ==
    IF StartsWithWhatsapp(recipient) THEN recipient ELSE <<"whatsapp:">> \o recipient

\* What get_secret_value can answer for the Twilio secret: the call raises, or
\* SecretString is absent, is no JSON, is JSON but no object, or is an object
\* with or without the two credentials.
TwilioResponses == {[raises |-> TRUE]}
    \cup {[raises |-> FALSE, SecretString |-> [json |-> k]] : k \in {"absent", "invalid", "other"}}
    \cup {[raises |-> FALSE,
           SecretString |-> [json |-> "dict", account_sid |-> a, auth_token |-> b]] :
            a \in {None, "AC1"}, b \in {"", "token"}}

\* lines 46-57: whether the fetched secret yields a client
TwilioCredsUsable(resp) ==
    /\ resp.SecretString.json = "dict"
    /\ Truthy(resp.SecretString.account_sid)
    /\ Truthy(resp.SecretString.auth_token)

\* _get_twilio_client: the client (None when it raises), the new cache, and
\* what the call adds to secretLog
FetchTwilioClient(cached, lib, name, resp) ==
    IF ~lib \/ ~Truthy(name) THEN [client |-> None, cache |-> cached, log |-> <<>>]
    ELSE IF resp.raises THEN [client |-> None, cache |-> cached, log |-> <<"error">>]
    ELSE IF TwilioCredsUsable(resp)
         THEN [client |-> "TwilioClient", cache |-> "TwilioClient", log |-> <<"loaded">>]
    ELSE [client |-> None, cache |-> cached, log |-> <<"unusable">>]

GetTwilioClientNoCache(cached, lib, name, resp) ==
    FetchTwilioClient(cached, lib, name, resp)
GetTwilioClient(cached, lib, name, resp) ==
    IF Truthy(cached) THEN [client |-> cached, cache |-> cached, log |-> <<>>]
    ELSE FetchTwilioClient(cached, lib, name, resp)

\* the event data a payload carries: a JSON object (status a string, null or
\* absent), another truthy JSON value, or a falsy one ({}, [], 0, null)
WaEventData ==
    {[json |-> "falsy"], [json |-> "other"]}
    \cup {[json |-> "dict", status |-> st] : st \in {"absent", "null", "success", "failed"}}
NoEventData == [json |-> "none"]

WaSnsRecords ==
    {[shape |-> "dict", EventSource |-> "aws:s3"],
     [shape |-> "dict", EventSource |-> "aws:sns", Sns |-> [Message |-> [json |-> "invalid"]]]}
    \cup {[shape |-> "dict", EventSource |-> "aws:sns", Sns |-> [Message |-> m]] :
            m \in {[json |-> "falsy"], [json |-> "dict", status |-> "failed"]}}
WaEvents ==
    {[kind |-> "direct", data |-> d] : d \in WaEventData}
    \cup {[kind |-> "records", Records |-> rs] : rs \in SeqsUpTo(WaSnsRecords, MaxWaRecords)}

\* lines 150-157: event_data of the first SNS record, None when there is none
RECURSIVE WaScanRecords(_, _)
WaScanRecords(rs, i) ==
    IF i > Len(rs) THEN NoEventData
    ELSE IF rs[i].EventSource = "aws:sns"
         THEN IF rs[i].Sns.Message.json = "invalid"
              THEN [json |-> "dict", status |-> "absent"]     \* {"message": sns_message}
              ELSE rs[i].Sns.Message
    ELSE WaScanRecords(rs, i + 1)

\* lines 147-160
EventData(ev) == IF ev.kind = "records" THEN WaScanRecords(ev.Records, 1) ELSE ev.data

\* bool(event_data)
EventDataTruthy(d) == d.json \in {"dict", "other"}

\* _format_whatsapp_message raises on event data that is no object
\* (event_data.get) and on a status that is no string (status.upper())
FormatRaises(d) == d.json # "dict" \/ d.status = "null"

\* send_whatsapp_alert: load the client, format, create the message; any
\* failure is logged and re-raised.  sent: the message was created.
CreateOutcomes == {"ok", "TwilioRestException"}
SendWhatsappAlert(d, r, create) ==
    /\ Truthy(r.client)
    /\ ~FormatRaises(d)
    /\ create = "ok"

\* lines 184-188: the entry appended to results
ResultEntry(recipient, sent) ==
    [recipient |-> recipient, status |-> IF sent THEN "sent" ELSE "failed"]

\* lines 144-174
WaInvoke ==
    /\ \E ev \in WaEvents :
         /\ StartInvocation("whatsapp", ev)
         /\ LET d == EventData(ev) IN
              /\ event_data' = d
              /\ IF ~EventDataTruthy(d)
                 THEN /\ ret' = Returned([statusCode |-> 400, error |-> "No event data"])
                      /\ pc' = "done"
                      /\ recipients' = <<>>
                 ELSE IF WHATSAPP_TO = <<>>
                 THEN /\ ret' = Returned([statusCode |-> 200,
                                          message |-> "WhatsApp not configured"])
                      /\ pc' = "done"
                      /\ recipients' = <<>>
                 ELSE /\ ret' = NoReturn
                      /\ pc' = "send"
                      /\ recipients' = Recipients(WHATSAPP_TO)
    /\ results' = <<>>
    /\ UNCHANGED <<proc, secretLog, slackVars, Client, TWILIO_SECRET_NAME, WHATSAPP_TO,
                   twilio_client, psVars, ixVars, fsVars>>

\* lines 177-188: one turn of the loop over recipients
WaSend ==
    /\ proc = "whatsapp" /\ pc = "send"
    /\ Len(results) < Len(recipients)
    /\ \E resp \in TwilioResponses, create \in CreateOutcomes :
         LET recipient == Address(recipients[Len(results) + 1])
             r == GetTwilioClient(twilio_client, Client, TWILIO_SECRET_NAME, resp)
             sent == SendWhatsappAlert(event_data, r, create)
         IN /\ twilio_client' = r.cache
            /\ secretLog' = Logged(secretLog, r.log, twilio_client)
            /\ calls' = Append(calls, [op |-> "send_whatsapp_alert", to |-> recipient,
                                       ok |-> sent])
            /\ results' = Append(results, ResultEntry(recipient, sent))
    /\ UNCHANGED <<proc, pc, invocations, event, ret, slackVars, Client,
                   TWILIO_SECRET_NAME, WHATSAPP_TO, event_data, recipients, psVars, ixVars, fsVars>>

\* lines 190-195
WaReturn ==
    /\ proc = "whatsapp" /\ pc = "send"
    /\ Len(results) = Len(recipients)
    /\ ret' = Returned([statusCode |-> 200, message |-> "WhatsApp alerts processed",
                        results |-> results])
    /\ pc' = "done"
    /\ UNCHANGED <<proc, invocations, event, calls, secretLog, slackVars, waVars, psVars, ixVars, fsVars>>

WaEnd ==
    /\ proc = "whatsapp" /\ pc = "done"
    /\ pc' = "idle"
    /\ event' = NoEvent /\ calls' = <<>> /\ ret' = NoReturn
    /\ event_data' = NoEventData /\ recipients' = <<>> /\ results' = <<>>
    /\ UNCHANGED <<proc, invocations, secretLog, slackVars, Client, TWILIO_SECRET_NAME,
                   WHATSAPP_TO, twilio_client, psVars, ixVars, fsVars>>

WaNext == WaInvoke \/ WaSend \/ WaReturn \/ WaEnd

\* ============================================================== gcp_pubsub
\* What get_secret_value can answer for the service-account key: the call
\* raises, or SecretString is absent, or it holds a key that json.loads and
\* from_service_account_info accept, or one that either of them rejects.
GcpResponses == {[raises |-> TRUE]}
    \cup {[raises |-> FALSE, SecretString |-> [json |-> k]] :
            k \in {"absent", "invalid", "service_account"}}

\* _get_publisher_client: the client (None when it raises), the new cache, and
\* what the call adds to secretLog
FetchPublisherClient(cached, lib, name, project, resp) ==
    IF ~lib \/ ~Truthy(name) \/ ~Truthy(project)
    THEN [client |-> None, cache |-> cached, log |-> <<>>]
    ELSE IF resp.raises THEN [client |-> None, cache |-> cached, log |-> <<"error">>]
    ELSE IF resp.SecretString.json = "service_account"
         THEN [client |-> "PublisherClient", cache |-> "PublisherClient",
               log |-> <<"loaded">>]
    ELSE [client |-> None, cache |-> cached, log |-> <<"unusable">>]

GetPublisherClient(cached, lib, name, project, resp) ==
    IF Truthy(cached) THEN [client |-> cached, cache |-> cached, log |-> <<>>]
    ELSE FetchPublisherClient(cached, lib, name, project, resp)

\* What the wrapped handler can do: raise, return something that is no dict,
\* or return a dict.  statusCode 0 stands for a dict without that key.  body is
\* absent (the default "{}" is decoded), a JSON object, another JSON value, a
\* string that is no JSON, or no string at all.
NoStatusCode == 0
HandlerBodies == {"absent", "json_dict", "json_other", "invalid", "not_a_string"}
HandlerOutcomes ==
    {[raises |-> TRUE], [raises |-> FALSE, type |-> "nondict"]}
    \cup {[raises |-> FALSE, type |-> "dict", statusCode |-> c, body |-> b] :
            c \in {200, 500, NoStatusCode}, b \in HandlerBodies}
NoResult == [raises |-> FALSE, type |-> "none"]

\* line 128
ShouldPublishAnyDict(h) == h.type = "dict"
ShouldPublish(h) == h.type = "dict" /\ h.statusCode = 200

\* line 130: json.loads(result.get("body", "{}")) raises
DecodeRaises(h) == h.body \in {"invalid", "not_a_string"}

\* lines 89-96 of publish_to_pubsub: event_data.get raises on a body that is
\* no JSON object, after the client was obtained and before client.publish
AttributesRaise(h) == h.body = "json_other"

\* lines 132-136: what the wrapper does once the republish is over
WrapperReturnPropagates(h, publishFailed) == IF publishFailed THEN Raised ELSE Returned(h)
WrapperReturn(h, publishFailed) == Returned(h)

PubsubOutcomes == {"ok", "error"}

PsInvoke ==
    /\ StartInvocation("pubsub", [kind |-> "any"])
    /\ pc' = "original_handler"
    /\ result' = NoResult
    /\ UNCHANGED <<proc, secretLog, slackVars, waVars, pubsub_v1, GCP_PUBSUB_SECRET_NAME,
                   GCP_PROJECT_ID, publisher_client, ixVars, fsVars>>

\* line 125 and the test of line 128
PsOriginalHandler ==
    /\ proc = "pubsub" /\ pc = "original_handler"
    /\ \E h \in HandlerOutcomes :
         /\ calls' = Append(calls, Call("original_handler", ~h.raises))
         /\ IF h.raises
            THEN result' = result /\ ret' = Raised /\ pc' = "done"
            ELSE /\ result' = h
                 /\ IF ShouldPublish(h)
                    THEN ret' = ret /\ pc' = "republish"
                    ELSE ret' = WrapperReturn(h, FALSE) /\ pc' = "done"
    /\ UNCHANGED <<proc, invocations, event, secretLog, slackVars, waVars, pubsub_v1,
                   GCP_PUBSUB_SECRET_NAME, GCP_PROJECT_ID, publisher_client, ixVars, fsVars>>

\* lines 129-136, with publish_to_pubsub (lines 84-109) inside the try
PsRepublish ==
    /\ proc = "pubsub" /\ pc = "republish"
    /\ \E resp \in GcpResponses, outcome \in PubsubOutcomes :
         IF DecodeRaises(result)
         THEN /\ calls' = Append(calls, Call("json.loads", FALSE))
              /\ ret' = WrapperReturn(result, TRUE)
              /\ UNCHANGED <<publisher_client, secretLog>>
         ELSE LET r == GetPublisherClient(publisher_client, pubsub_v1,
                                          GCP_PUBSUB_SECRET_NAME, GCP_PROJECT_ID, resp)
                  reached == Truthy(r.client) /\ ~AttributesRaise(result)
                  published == reached /\ outcome = "ok"
              IN /\ publisher_client' = r.cache
                 /\ secretLog' = Logged(secretLog, r.log, publisher_client)
                 /\ calls' = calls
                      \o <<Call("publish_to_pubsub", published)>>
                      \o (IF reached THEN <<Call("client.publish", published)>> ELSE <<>>)
                 /\ ret' = WrapperReturn(result, ~published)
    /\ pc' = "done"
    /\ UNCHANGED <<proc, invocations, event, slackVars, waVars, pubsub_v1,
                   GCP_PUBSUB_SECRET_NAME, GCP_PROJECT_ID, result, ixVars, fsVars>>

PsEnd ==
    /\ proc = "pubsub" /\ pc = "done"
    /\ pc' = "idle"
    /\ event' = NoEvent /\ calls' = <<>> /\ ret' = NoReturn
    /\ result' = NoResult
    /\ UNCHANGED <<proc, invocations, secretLog, slackVars, waVars, pubsub_v1,
                   GCP_PUBSUB_SECRET_NAME, GCP_PROJECT_ID, publisher_client, ixVars, fsVars>>

PsNext == PsInvoke \/ PsOriginalHandler \/ PsRepublish \/ PsEnd

\* ================================================================ index.py
\* What get_secret_value can answer: it raises, or returns a response with
\* or without SecretString.  get_secrets catches everything and returns a dict.
IndexResponses == {"error", "no SecretString", "SecretString"}

\* get_secrets (lines 32-43): whether it calls the secret store.  With
\* SECRETS_MANAGER_ARN unset, None.split raises before the call and {} is
\* returned.  Nothing is cached: there is no module-level variable.
GetSecretsQueries(arn) == Truthy(arn)

NoResults == [status |-> "none", tasks_processed |-> 0, errors |-> <<>>]
\* lines 136-142
InitialResults == [status |-> "success", tasks_processed |-> 0, errors |-> <<>>]

\* lines 156-159 and 170-173: a counted step
CountedStepNoError(res, ok, message) ==
    IF ok THEN [res EXCEPT !.tasks_processed = @ + 1] ELSE res
CountedStep(res, ok, message) ==
    IF ok THEN [res EXCEPT !.tasks_processed = @ + 1]
    ELSE [res EXCEPT !.errors = Append(@, message)]

\* lines 180-188: the subject of the alert
AlertSubjectSuccess(res) == "Daily Coordinator - Success"
AlertSubject(res) ==
    IF res.errors # <<>> THEN "Daily Coordinator - Partial Success"
    ELSE "Daily Coordinator - Success"

\* save_state_to_dynamodb, upload_cache_to_s3 and publish_alert catch every
\* exception of their call and answer True or False
IxInvoke ==
    /\ StartInvocation("index", [kind |-> "any"])
    /\ pc' = "get_secrets"
    /\ coord_results' = InitialResults
    /\ UNCHANGED <<proc, secretLog, slackVars, waVars, psVars, SECRETS_MANAGER_ARN, table,
                   queried, fsVars>>

\* line 146
IxGetSecrets ==
    /\ proc = "index" /\ pc = "get_secrets"
    /\ \E resp \in IndexResponses :
         IF GetSecretsQueries(SECRETS_MANAGER_ARN)
         THEN /\ queried' = queried \cup {invocations}
              /\ secretLog' = Logged(secretLog,
                                     <<CASE resp = "error" -> "error"
                                         [] resp = "no SecretString" -> "unusable"
                                         [] OTHER -> "loaded">>, None)
              /\ calls' = Append(calls, Call("get_secret_value", resp # "error"))
         ELSE UNCHANGED <<queried, secretLog, calls>>
    /\ pc' = "save_running"
    /\ UNCHANGED <<proc, invocations, event, ret, slackVars, waVars, psVars,
                   SECRETS_MANAGER_ARN, coord_results, table, fsVars>>

\* lines 150-159
IxSaveRunning ==
    /\ proc = "index" /\ pc = "save_running"
    /\ \E ok \in BOOLEAN :
         /\ calls' = Append(calls, Call("put_item running", ok))
         /\ table' = IF ok THEN Append(table, "running") ELSE table
         /\ coord_results' = CountedStep(coord_results, ok, "Failed to save state to DynamoDB")
    /\ pc' = "upload"
    /\ UNCHANGED <<proc, invocations, event, ret, secretLog, slackVars, waVars, psVars,
                   SECRETS_MANAGER_ARN, queried, fsVars>>

\* lines 162-173
IxUpload ==
    /\ proc = "index" /\ pc = "upload"
    /\ \E ok \in BOOLEAN :
         /\ calls' = Append(calls, Call("put_object", ok))
         /\ coord_results' = CountedStep(coord_results, ok, "Failed to upload cache to S3")
    /\ pc' = "save_completed"
    /\ UNCHANGED <<proc, invocations, event, ret, secretLog, slackVars, waVars, psVars,
                   SECRETS_MANAGER_ARN, table, queried, fsVars>>

\* lines 176-177: the outcome is not looked at
IxSaveCompleted ==
    /\ proc = "index" /\ pc = "save_completed"
    /\ \E ok \in BOOLEAN :
         /\ calls' = Append(calls, Call("put_item completed", ok))
         /\ table' = IF ok THEN Append(table, "completed") ELSE table
    /\ pc' = "publish_alert"
    /\ UNCHANGED <<proc, invocations, event, ret, secretLog, slackVars, waVars, psVars,
                   SECRETS_MANAGER_ARN, coord_results, queried, fsVars>>

\* lines 180-190, and lambda_handler's lines 215-220
IxPublishAlert ==
    /\ proc = "index" /\ pc = "publish_alert"
    /\ \E ok \in BOOLEAN :
         calls' = Append(calls, [op |-> "publish", ok |-> ok,
                                 subject |-> AlertSubject(coord_results)])
    /\ ret' = Returned([statusCode |-> 200, body |-> coord_results])
    /\ pc' = "done"
    /\ UNCHANGED <<proc, invocations, event, secretLog, slackVars, waVars, psVars, ixVars,
                   fsVars>>

IxEnd ==
    /\ proc = "index" /\ pc = "done"
    /\ pc' = "idle"
    /\ event' = NoEvent /\ calls' = <<>> /\ ret' = NoReturn
    /\ coord_results' = NoResults
    /\ UNCHANGED <<proc, invocations, secretLog, slackVars, waVars, psVars,
                   SECRETS_MANAGER_ARN, table, queried, fsVars>>

IxNext == IxInvoke \/ IxGetSecrets \/ IxSaveRunning \/ IxUpload \/ IxSaveCompleted
          \/ IxPublishAlert \/ IxEnd

\* ================================================= cloud-function/main.py
FsCoordinators == {"unknown", "c1"}

\* The Pub/Sub message: without "data"; with data that base64, utf-8 or JSON
\* cannot decode; with data that is JSON but no object; or with an object.
\* coordinator_id and tasks_processed may be absent.  attributes is absent, an
\* object, or null.
\* tasks_processed of a payload without that key
Absent == -1
FsPayloads ==
    {[coordinator_id |-> c, tasks_processed |-> n] :
        c \in {None, "c1"}, n \in {Absent} \cup (0..MaxTasks)}
FsEvents ==
    {[data |-> "none"], [data |-> "undecodable"], [data |-> "json_other"]}
    \cup {[data |-> "json_dict", payload |-> p, attributes |-> a] :
            p \in FsPayloads, a \in {"absent", "dict", "null"}}
NoPayload == [coordinator_id |-> None, tasks_processed |-> Absent]

\* lines 28-51: decoding and building the document raise
FsDecodeRaises(ev) ==
    \/ ev.data \in {"undecodable", "json_other"}
    \/ ev.data = "json_dict" /\ ev.attributes = "null"

\* line 37
CoordinatorId(p) == IF p.coordinator_id = None THEN "unknown" ELSE p.coordinator_id
\* payload.get("tasks_processed", 0)
TasksProcessed(p) == IF p.tasks_processed = Absent THEN 0 ELSE p.tasks_processed

\* line 54
DocId(p, t) == <<CoordinatorId(p), t>>

\* lines 41-55: db.collection("tasks").document(doc_id).set(task_doc)
SetTask(ts, p, t) ==
    {d \in ts : d.id # DocId(p, t)}
    \cup {[id |-> DocId(p, t), tasks_processed |-> TasksProcessed(p)]}

\* lines 60-69: set(..., merge=True) with firestore.Increment
MergeWithoutIncrement(cs, p) == [cs EXCEPT ![CoordinatorId(p)] = TasksProcessed(p)]
MergeAggregate(cs, p) == [cs EXCEPT ![CoordinatorId(p)] = @ + TasksProcessed(p)]

\* lines 28-33: the handler returns at once on a message without data
ReturnsEarly(ev) == ev.data = "none"

\* lines 71-73: what the handler does with a failed write
WriteFailureSwallowed == Returned([value |-> None])
WriteFailure == Raised

FsInvoke ==
    /\ \E ev \in FsEvents :
         /\ StartInvocation("firestore", ev)
         /\ IF ReturnsEarly(ev)
            THEN pc' = "done" /\ ret' = Returned([value |-> None]) /\ payload' = NoPayload
            ELSE IF FsDecodeRaises(ev)
            THEN pc' = "done" /\ ret' = Raised /\ payload' = NoPayload
            ELSE pc' = "write_task" /\ ret' = NoReturn /\ payload' = ev.payload
    /\ now' \in {now, now + 1}
    /\ store_before' = [tasks |-> tasks, coordinators |-> coordinators]
    /\ UNCHANGED <<proc, secretLog, slackVars, waVars, psVars, ixVars, tasks, coordinators,
                   returned_total>>

\* lines 53-57
FsWriteTask ==
    /\ proc = "firestore" /\ pc = "write_task"
    /\ \E ok \in BOOLEAN :
         /\ calls' = Append(calls, Call("tasks.set", ok))
         /\ IF ok
            THEN tasks' = SetTask(tasks, payload, now) /\ pc' = "merge" /\ ret' = ret
            ELSE tasks' = tasks /\ pc' = "done" /\ ret' = WriteFailure
    /\ UNCHANGED <<proc, invocations, event, secretLog, slackVars, waVars, psVars, ixVars,
                   payload, now, coordinators, returned_total, store_before>>

\* lines 59-69
FsMerge ==
    /\ proc = "firestore" /\ pc = "merge"
    /\ \E ok \in BOOLEAN :
         /\ calls' = Append(calls, Call("coordinators.set", ok))
         /\ IF ok
            THEN coordinators' = MergeAggregate(coordinators, payload)
                 /\ ret' = Returned([value |-> None])
            ELSE coordinators' = coordinators /\ ret' = WriteFailure
    /\ pc' = "done"
    /\ UNCHANGED <<proc, invocations, event, secretLog, slackVars, waVars, psVars, ixVars,
                   payload, now, tasks, returned_total, store_before>>

\* the platform takes the outcome: a normal return of an invocation that
\* carried data is counted in returned_total
FsEnd ==
    /\ proc = "firestore" /\ pc = "done"
    /\ returned_total' =
         IF ret.kind = "return" /\ event.data # "none"
         THEN [returned_total EXCEPT ![CoordinatorId(payload)] = @ + TasksProcessed(payload)]
         ELSE returned_total
    /\ pc' = "idle"
    /\ event' = NoEvent /\ calls' = <<>> /\ ret' = NoReturn
    /\ payload' = NoPayload
    /\ store_before' = [tasks |-> tasks, coordinators |-> coordinators]
    /\ UNCHANGED <<proc, invocations, secretLog, slackVars, waVars, psVars, ixVars, now,
                   tasks, coordinators>>

FsNext == FsInvoke \/ FsWriteTask \/ FsMerge \/ FsEnd

\* ================================================================== system
Procs == {"slack", "whatsapp", "pubsub", "index", "firestore"}

InitCommon ==
    /\ proc \in Procs
    /\ pc = "idle"
    /\ invocations = 0
    /\ event = NoEvent
    /\ calls = <<>>
    /\ ret = NoReturn
    /\ secretLog = NoSecretCalls

InitSlack ==
    /\ SLACK_SECRET_NAME \in (IF proc = "slack" THEN {None, "slack/webhook"} ELSE {None})
    /\ cached_webhook = None
    /\ webhook_url = None
    /\ summary = None

\* the environment of the chat relay: the twilio library is packaged or not,
\* the secret name is set or not, WHATSAPP_TO holds any of its values
WaEnvironments ==
    {[lib |-> TRUE, name |-> "twilio/creds", to |-> t] : t \in WhatsappToValues}
    \cup {[lib |-> FALSE, name |-> "twilio/creds", to |-> <<"+1">>],
          [lib |-> TRUE, name |-> None, to |-> <<"+1">>]}

InitWa ==
    /\ \E env \in (IF proc = "whatsapp" THEN WaEnvironments
                    ELSE {[lib |-> FALSE, name |-> None, to |-> <<>>]}) :
         /\ Client = env.lib
         /\ TWILIO_SECRET_NAME = env.name
         /\ WHATSAPP_TO = env.to
    /\ twilio_client = None
    /\ event_data = NoEventData
    /\ recipients = <<>>
    /\ results = <<>>

\* the environment of the second-bus publisher
PsEnvironments ==
    {[lib |-> TRUE, name |-> "gcp/key", project |-> "project"],
     [lib |-> FALSE, name |-> "gcp/key", project |-> "project"],
     [lib |-> TRUE, name |-> None, project |-> "project"],
     [lib |-> TRUE, name |-> "gcp/key", project |-> None]}

InitPs ==
    /\ \E env \in (IF proc = "pubsub" THEN PsEnvironments
                    ELSE {[lib |-> FALSE, name |-> None, project |-> None]}) :
         /\ pubsub_v1 = env.lib
         /\ GCP_PUBSUB_SECRET_NAME = env.name
         /\ GCP_PROJECT_ID = env.project
    /\ publisher_client = None
    /\ result = NoResult

InitIx ==
    /\ SECRETS_MANAGER_ARN \in (IF proc = "index" THEN {None, "arn:aws:secret"} ELSE {None})
    /\ coord_results = NoResults
    /\ table = <<>>
    /\ queried = {}

InitFs ==
    /\ payload = NoPayload
    /\ now = 0
    /\ tasks = {}
    /\ coordinators = [c \in FsCoordinators |-> 0]
    /\ returned_total = [c \in FsCoordinators |-> 0]
    /\ store_before = [tasks |-> {}, coordinators |-> [c \in FsCoordinators |-> 0]]

Init == InitCommon /\ InitSlack /\ InitWa /\ InitPs /\ InitIx /\ InitFs

Next == SlackNext \/ WaNext \/ PsNext \/ IxNext \/ FsNext

Spec == Init /\ [][Next]_vars

\* _extract_summary by itself: the webhook relay stands at line 146, the
\* webhook URL loaded, with any event of SummaryEvents
InitSummary ==
    /\ proc = "slack"
    /\ pc = "extract"
    /\ invocations = 1
    /\ event \in SummaryEvents
    /\ calls = <<Call("load_webhook_url", TRUE)>>
    /\ ret = NoReturn
    /\ secretLog = [fetched |-> 1, loaded |-> 1, late |-> 0]
    /\ SLACK_SECRET_NAME = "slack/webhook"
    /\ cached_webhook = "https://hooks/A"
    /\ webhook_url = "https://hooks/A"
    /\ summary = None
    /\ InitWa /\ InitPs /\ InitIx /\ InitFs

SpecSummary == InitSummary /\ [][SlackExtract]_vars

\* ================================================================== claims
\* the three modules that cache a credential
CachingProcs == {"slack", "whatsapp", "pubsub"}
\* --- vocabulary of the properties
\* the positions in calls of the calls of one operation
PublishCalls(op) == {i \in DOMAIN calls : calls[i].op = op}
\* the operations of a sequence of calls; a is a prefix of b
Ops(cs) == [i \in DOMAIN cs |-> cs[i].op]
IsPrefix(a, b) == Len(a) <= Len(b) /\ a = SubSeq(b, 1, Len(a))
\* the call of an operation; how many calls of ops succeeded; membership
CallOf(op) == calls[CHOOSE i \in DOMAIN calls : calls[i].op = op]
OkCount(ops) == Cardinality({i \in DOMAIN calls : calls[i].op \in ops /\ calls[i].ok})
InSeq(x, sq) == \E i \in DOMAIN sq : sq[i] = x
\* every call but the secret lookup goes to a sink
IsOutbound(c) == c.op # "get_secret_value"
\* phone numbers and separators of a token string; concatenation; a
\* recipient address: the prefix followed by numbers only
IsNumber(tok) == tok \in {"+1", "+2"}
IsComma(tok) == tok = ","
RECURSIVE Flatten(_)
Flatten(ss) == IF ss = <<>> THEN <<>> ELSE Head(ss) \o Flatten(Tail(ss))
WellAddressed(to) ==
    /\ Len(to) >= 1
    /\ to[1] = "whatsapp:"
    /\ \A i \in 2..Len(to) : IsNumber(to[i])

\* C1 (as amended): in the webhook relay, the chat relay and the second-bus
\* publisher, once a credential load has succeeded the cached value is reused
\* and the secret store is never called again: at most one load succeeds per
\* process, no call is made while a credential is cached, and the URL the
\* webhook relay works with is the cached one.
C1_CachedCredentialReused ==
    proc \in CachingProcs =>
        /\ secretLog.loaded <= 1
        /\ secretLog.late = 0
        /\ (secretLog.loaded = 1) <=>
             (Truthy(cached_webhook) \/ Truthy(twilio_client) \/ Truthy(publisher_client))
        /\ (proc = "slack" /\ pc \in {"extract", "render", "post"}) =>
             (Truthy(webhook_url) /\ webhook_url = cached_webhook)

\* C1 as stated: the number of successful secret-store fetches per module is
\* at most one.
C1_AtMostOneSuccessfulFetch ==
    proc \in CachingProcs => secretLog.fetched <= 1

\* two recipients of one invocation were both served by a single fetch: the
\* second send used the cached client
C1_Witness ==
    /\ proc = "whatsapp" /\ pc = "done"
    /\ Len(results) = 2
    /\ results[1].status = "sent" /\ results[2].status = "sent"
    /\ secretLog.fetched = 1 /\ secretLog.loaded = 1

\* C2 as stated: over any sequence of lambda_handler invocations in one
\* process, the secret store is queried only by the first invocation.
C2_SecretsQueriedOnlyByFirstInvocation ==
    proc = "index" => queried \subseteq {1}

\* C3: whenever the wrapped handler returned a value, the wrapper returns
\* exactly that value and does not raise, whatever became of the republish.
C3_WrapperReturnsHandlerResult ==
    (proc = "pubsub" /\ pc = "done" /\ Len(calls) >= 1 /\ calls[1].ok) =>
        ret = [kind |-> "return", value |-> result]

\* the publish call itself failed and the handler's result came back
C3_Witness ==
    /\ proc = "pubsub" /\ pc = "done"
    /\ \E i \in DOMAIN calls : calls[i].op = "client.publish" /\ ~calls[i].ok
    /\ ret.kind = "return"

\* C4: a publish is attempted at most once per invocation, only after the
\* wrapped handler returned, and only for a dict result with statusCode 200; a
\* handler that raises is followed by no call and its exception propagates.
C4_RepublishOnlySuccess ==
    proc = "pubsub" =>
        /\ Cardinality(PublishCalls("publish_to_pubsub")) <= 1
        /\ Cardinality(PublishCalls("client.publish")) <= 1
        /\ \A i \in PublishCalls("publish_to_pubsub") \cup PublishCalls("client.publish") :
             /\ i > 1
             /\ calls[1] = [op |-> "original_handler", ok |-> TRUE]
             /\ result.type = "dict"
             /\ result.statusCode = 200
        /\ (Len(calls) >= 1 /\ ~calls[1].ok) =>
             (Len(calls) = 1 /\ pc = "done" /\ ret = [kind |-> "raised"])

C4_Witness ==
    /\ proc = "pubsub" /\ pc = "done"
    /\ PublishCalls("client.publish") # {}

\* C5: the document-sync handler returns normally only when the message has
\* no data (and then nothing is written) or when both writes succeeded, the
\* task record first; every failure is re-raised, and a failed first write is
\* never followed by the second.
C5_ReturnsOnlyAfterBothWrites ==
    proc = "firestore" =>
        /\ IsPrefix(Ops(calls), <<"tasks.set", "coordinators.set">>)
        /\ \A i \in DOMAIN calls : ~calls[i].ok => i = Len(calls)
        /\ pc = "done" =>
             /\ ret.kind \in {"return", "raised"}
             /\ ret.kind = "return" <=>
                  \/ event.data = "none"
                  \/ (Len(calls) = 2 /\ calls[1].ok /\ calls[2].ok)
             /\ event.data = "none" => calls = <<>>

\* the first write failed: the handler raised without trying the second
C5_Witness ==
    /\ proc = "firestore" /\ pc = "done"
    /\ calls = <<[op |-> "tasks.set", ok |-> FALSE]>>
    /\ ret.kind = "raised"

\* C6: each coordinator's total_tasks is the sum of tasks_processed over the
\* invocations that carried data and returned normally; an invocation that
\* raises adds nothing.  (While a normal return is being handed to the
\* platform the counter already holds it.)
C6_TotalIsSumOfReturned ==
    (proc = "firestore" /\ (pc # "done" \/ ret.kind # "return")) =>
        coordinators = returned_total

\* one invocation returned and counted 1; another wrote its task record in a
\* later second and then raised
C6_Witness ==
    /\ proc = "firestore" /\ pc = "idle"
    /\ invocations = 2
    /\ coordinators["c1"] = 1
    /\ Cardinality(tasks) = 2

\* C7: when coordinate_daily_tasks returns, tasks_processed is the number of
\* the two counted steps (first state write, blob upload) that succeeded and
\* errors holds one entry for each that failed: tasks_processed + len(errors) = 2.
C7_CountsAndErrorsConsistent ==
    (proc = "index" /\ pc = "done") =>
        LET r == ret.value.body IN
        /\ r.tasks_processed = OkCount({"put_item running", "put_object"})
        /\ r.tasks_processed + Len(r.errors) = 2
        /\ InSeq("Failed to save state to DynamoDB", r.errors)
             <=> ~CallOf("put_item running").ok
        /\ InSeq("Failed to upload cache to S3", r.errors) <=> ~CallOf("put_object").ok

C7_Witness ==
    /\ proc = "index" /\ pc = "done"
    /\ ret.value.body.tasks_processed = 1
    /\ Len(ret.value.body.errors) = 1

\* C8: every invocation of coordinate_daily_tasks makes exactly one alert
\* publish, as its last outbound call, after the 'running' write, the blob
\* upload and the 'completed' write in that order; the subject is
\* 'Daily Coordinator - Success' exactly when errors is empty and
\* 'Daily Coordinator - Partial Success' otherwise; the returned result does
\* not depend on the outcome of the publish.
C8_OneAlertLast ==
    proc = "index" =>
        LET out == SelectSeq(calls, IsOutbound) IN
        /\ IsPrefix(Ops(out),
                    <<"put_item running", "put_object", "put_item completed", "publish">>)
        /\ pc = "done" =>
             /\ Len(out) = 4
             /\ out[4].subject =
                  (IF out[1].ok /\ out[2].ok THEN "Daily Coordinator - Success"
                   ELSE "Daily Coordinator - Partial Success")
             /\ (out[4].subject = "Daily Coordinator - Success")
                  <=> (ret.value.body.errors = <<>>)
             /\ ret = [kind |-> "return",
                       value |-> [statusCode |-> 200,
                                  body |-> [status |-> "success",
                                            tasks_processed |->
                                               (IF out[1].ok THEN 1 ELSE 0)
                                               + (IF out[2].ok THEN 1 ELSE 0),
                                            errors |->
                                               (IF out[1].ok THEN <<>>
                                                ELSE <<"Failed to save state to DynamoDB">>)
                                               \o (IF out[2].ok THEN <<>>
                                                   ELSE <<"Failed to upload cache to S3">>)]]]

\* an alert for a partial success failed to publish
C8_Witness ==
    /\ proc = "index" /\ pc = "done"
    /\ calls[Len(calls)].op = "publish" /\ ~calls[Len(calls)].ok
    /\ calls[Len(calls)].subject = "Daily Coordinator - Partial Success"

\* C9: with event data and WHATSAPP_TO configured, the chat relay makes one
\* send attempt per configured recipient, in configured order, each addressed
\* 'whatsapp:' + number; a failed send does not stop the later ones; results
\* has one entry per recipient, in order, 'sent' exactly for the sends that
\* succeeded; the statusCode is 200 whatever failed.
C9_OneSendPerRecipient ==
    (proc = "whatsapp" /\ pc = "done" /\ event_data.json \in {"dict", "other"}
       /\ WHATSAPP_TO # <<>>) =>
        /\ Len(calls) = 1 + Len(SelectSeq(WHATSAPP_TO, IsComma))
        /\ \A i \in DOMAIN calls :
             calls[i].op = "send_whatsapp_alert" /\ WellAddressed(calls[i].to)
        /\ Flatten([i \in DOMAIN calls |-> Tail(calls[i].to)])
             = SelectSeq(WHATSAPP_TO, IsNumber)
        /\ ret.kind = "return"
        /\ ret.value.statusCode = 200
        /\ Len(ret.value.results) = Len(calls)
        /\ \A i \in DOMAIN calls :
             /\ ret.value.results[i].recipient = calls[i].to
             /\ ret.value.results[i].status \in {"sent", "failed"}
             /\ (ret.value.results[i].status = "sent") <=> calls[i].ok

\* the first recipient's send failed and the second was still sent
C9_Witness ==
    /\ proc = "whatsapp" /\ pc = "done"
    /\ Len(calls) = 2
    /\ ~calls[1].ok /\ calls[2].ok
    /\ ret.value.results[2].status = "sent"

\* C10: the webhook relay runs load, extract, render, POST in that order and
\* returns the statusCode 200 object only if the POST succeeded; without a
\* webhook URL nothing is posted; a failed secret load or POST comes out as an
\* exception.
C10_PostLastAndDecisive ==
    proc = "slack" =>
        /\ IsPrefix(Ops(calls), <<"load_webhook_url", "extract_summary",
                                  "render_message", "post_to_slack">>)
        /\ \A i \in DOMAIN calls : ~calls[i].ok => i = Len(calls)
        /\ pc = "done" =>
             /\ ret.kind \in {"return", "raised"}
             /\ ret.kind = "return" <=> (Len(calls) = 4 /\ calls[4].ok)
             /\ ret.kind = "return" => ret.value.statusCode = 200
             /\ (\E i \in DOMAIN calls : ~calls[i].ok) => ret = [kind |-> "raised"]

\* the POST was attempted and failed
C10_Witness ==
    /\ proc = "slack" /\ pc = "done"
    /\ Len(calls) = 4 /\ ~calls[4].ok
    /\ ret.kind = "raised"

\* the first of vals that is neither absent nor empty, else the default
FirstNonEmpty(vals, default) ==
    IF \A i \in DOMAIN vals : vals[i] \in {None, ""} THEN default
    ELSE vals[CHOOSE i \in DOMAIN vals :
                /\ vals[i] \notin {None, ""}
                /\ \A j \in 1..(i - 1) : vals[j] \in {None, ""}]
\* the positions of the SNS records of an envelope
SnsPositions(rs) ==
    {i \in DOMAIN rs : rs[i].shape = "dict" /\ rs[i].EventSource = "aws:sns"}
\* the decoded message that may contribute to the summary: that of the first
\* SNS record, when it is a JSON object
FirstSnsIsObject(rs) ==
    /\ SnsPositions(rs) # {}
    /\ rs[CHOOSE i \in SnsPositions(rs) : \A j \in SnsPositions(rs) : i <= j]
         .Sns.Message.json = "dict"
FirstSnsMessage(rs) ==
    rs[CHOOSE i \in SnsPositions(rs) : \A j \in SnsPositions(rs) : i <= j].Sns.Message

\* C11: every summary _extract_summary builds has a non-empty task and a
\* non-empty status.  In a wrapped envelope only the first 'aws:sns' record
\* contributes; in a direct invocation the task is task_name, else task, else
\* coordinator_id; a field that is absent or empty (or an event that is no
\* dict, or an envelope without SNS record) keeps 'Daily Coordinator' and
\* 'updated'.
C11_SummaryTaskAndStatus ==
    (proc = "slack" /\ pc = "render") =>
        /\ summary.task \notin {None, ""}
        /\ summary.status \notin {None, ""}
        /\ event.kind = "nondict" =>
             (summary.task = "Daily Coordinator" /\ summary.status = "updated")
        /\ event.kind = "direct" =>
             /\ summary.task =
                  FirstNonEmpty(<<event.task_name, event.task, event.coordinator_id>>,
                                "Daily Coordinator")
             /\ summary.status = FirstNonEmpty(<<event.status>>, "updated")
        /\ event.kind = "records" =>
             IF FirstSnsIsObject(event.Records)
             THEN LET m == FirstSnsMessage(event.Records) IN
                  /\ summary.task =
                       FirstNonEmpty(<<m.task_name, m.task>>, "Daily Coordinator")
                  /\ summary.status = FirstNonEmpty(<<m.status>>, "updated")
             ELSE summary.task = "Daily Coordinator" /\ summary.status = "updated"

\* two SNS records: the first names no task, the second does and is ignored
C11_Witness ==
    /\ proc = "slack" /\ pc = "render"
    /\ event.kind = "records"
    /\ Len(event.Records) = 2
    /\ SnsPositions(event.Records) = {1, 2}
    /\ FirstSnsIsObject(event.Records)
    /\ event.Records[1].Sns.Message.task_name = ""
    /\ event.Records[1].Sns.Message.task = None
    /\ event.Records[2].Sns.Message.json = "dict"
    /\ event.Records[2].Sns.Message.task_name = "m.task_name"
    /\ summary.task = "Daily Coordinator"

\* C12 as stated: the two writes stay paired; an invocation that raises
\* leaves the document store as it found it, so no task record is ever present
\* without the merge of its tasks_processed.
C12_RaiseLeavesStoreUnchanged ==
    (proc = "firestore" /\ pc = "done" /\ ret.kind = "raised") =>
        /\ tasks = store_before.tasks
        /\ coordinators = store_before.coordinators

\* C13 as stated: the result of coordinate_daily_tasks has status 'success'
\* if and only if its errors list is empty.
C13_SuccessIffNoErrors ==
    (proc = "index" /\ pc = "done") =>
        ((ret.value.body.status = "success") <=> (ret.value.body.errors = <<>>))

\* C14 as stated: whenever coordinate_daily_tasks returns a result without
\* errors, the most recent status record stored in the table is 'completed'.
C14_NoErrorsMeansCompletedStored ==
    (proc = "index" /\ pc = "done" /\ ret.value.body.errors = <<>>) =>
        (table # <<>> /\ table[Len(table)] = "completed")

====
